---- MODULE Spec2Model ----
(***************************************************************************)
(* State-machine model of src/watchdog/_fsevents.c: the loop registry      *)
(* (g__pydict_loops), the stream registry (g__pydict_streams), the four    *)
(* module functions loop/stop/schedule/unschedule and the native callback  *)
(* event_stream_handler.                                                   *)
(*                                                                         *)
(* Every module function runs with the interpreter lock held, so each is   *)
(* one atomic action, except loop(), which drops the lock around           *)
(* CFRunLoopRun() (Py_BEGIN/END_ALLOW_THREADS) and is therefore four       *)
(* steps: LoopEnter, LoopRun, LoopExit, LoopLeave.  The handler is called  *)
(* by the run loop's thread without the lock and blocks in                 *)
(* PyEval_AcquireLock(): HandlerFire is the call, HandlerRun the rest.     *)
(* Between two steps the lock is free (the interpreter hands it from one   *)
(* thread to another), unless a handler call returned without releasing    *)
(* it.                                                                     *)
(*                                                                         *)
(* An execution context is an OS thread with its PyThreadState; its native *)
(* run loop (CFRunLoopGetCurrent()) is identified with the context.        *)
(***************************************************************************)
EXTENDS Integers, Sequences, FiniteSets, TLC

\* ------------------------------------------------------------ bounds
\* Native streams FSEventStreamCreate may hand out in one behaviour.
MaxStreams == 2

\* Events in one batch handed to event_stream_handler (SpecMarshal).
MaxEvents == 3

\* ------------------------------------------------------------ universes
Ctx == {"main", "w1"}          \* execution contexts (each owns one run loop)
TH  == {"t_main", "t_w1"}      \* thread handles (keys of g__pydict_loops)
SH  == {"s1", "s2"}            \* stream handles (keys of g__pydict_streams)
Outcome == {"ok", "raise"}     \* PyObject_CallFunction: a result, or NULL
                               \* with the callee's exception set

\* The thread handle is the managed thread object of the context that passes
\* it to loop(): in Spec each context runs loop() with its own handle (in
\* SpecAnyHandle with any).
HandleOf(c) == IF c = "main" THEN "t_main" ELSE "t_w1"

\* The context whose thread object t is.
CtxOf(t) == CHOOSE c \in Ctx : HandleOf(c) = t

\* Every schedule call is given a callable of its own: the n-th stream
\* created is given callback n.
Callback(n) == n

NoLoop == "NULL"               \* a NULL CFRunLoopRef
NoStream == 0                  \* a NULL FSEventStreamRef
NoErr == "none"                \* no exception pending in a thread state
NoCtx == "-"
NoCallback == 0
NoLock == "free"               \* the interpreter lock is not held
NoHandler == [sid |-> NoStream, cb |-> NoCallback, loop |-> NoLoop,
              ts |-> NoCtx, th |-> NoCtx, paths |-> << >>, masks |-> << >>]

VARIABLES
    g__pydict_loops,    \* thread handle -> loop (a context's run loop)
    g__pydict_streams,  \* stream handle -> native stream id (1..Len(fs))
    fs,                 \* native streams with their FSEventStreamInfo
    pc,                 \* per context: idle | released | running | returned
    runT,               \* per context: the `thread' argument of its loop()
    stopped,            \* per run loop: CFRunLoopStop flag of the activation
    hd,                 \* per run loop: the handler call in progress, with
                        \* the stream and the FSEventStreamInfo it was given
    err,                \* per context: exception pending in its thread state
    gil,                \* the interpreter lock between two steps: NoLock, or
                        \* the run loop whose thread was left holding it
    refs,               \* references to callbacks taken by Py_INCREF and
                        \* not given back
    crashed,            \* the process died on undefined behaviour
    last,               \* the step just taken (observation only)
    failT,              \* observation: handles t such that the callback of a
                        \* stream scheduled for t failed while loop(t) was
                        \* inside CFRunLoopRun and has not returned since
    failL,              \* observation: run loops on which a callback failed
                        \* during the loop() call that is running them
    gone                \* observation: stream handles whose stream an
                        \* unschedule call has torn down

vars == <<g__pydict_loops, g__pydict_streams, fs, pc, runT, stopped, hd, err,
          gil, refs, crashed, last, failT, failL, gone>>

\* ------------------------------------------------------------ dictionaries
\* PyDict_GetItem: the value, or NULL when the key is absent (no error set).
DictGet(d, k, null) == IF k \in DOMAIN d THEN d[k] ELSE null

\* PyDict_SetItem
DictSet(d, k, v) == [x \in DOMAIN d \cup {k} |-> IF x = k THEN v ELSE d[x]]

\* Mutant of DictDel: the entry is left in the dictionary.
DictDel_keeps(d, k) == d

\* PyDict_DelItem (the key is present)
DictDel(d, k) == [x \in DOMAIN d \ {k} |-> d[x]]

\* Mutant of AlreadyScheduled: the membership test is missing.
AlreadyScheduled_missing(s) == FALSE

\* PyDict_Contains(g__pydict_streams, stream) == 1
AlreadyScheduled(s) == s \in DOMAIN g__pydict_streams

\* ------------------------------------------------------------ errors
\* PyCObject_AsVoidPtr(NULL): TypeError unless an error is already pending.
AsVoidPtrNullErr(e) == IF e = NoErr THEN "TypeError" ELSE e

\* Lines 136-141: after a failed call, ValueError unless an error is pending.
CallbackError(e) == IF e = NoErr THEN "ValueError" ELSE e

\* What the caller of a function that returned NULL sees raised: the pending
\* exception, or SystemError when none is set.
Raised(e) == IF e = NoErr THEN "SystemError" ELSE e

\* ------------------------------------------------------------ marshalling
\* The native arrays event_paths[] and event_masks[] are sequences here:
\* element i of the C array is element i + 1 of the sequence.  A path is a
\* C string, a byte buffer that ends with NUL; a mask is a UInt32.

\* strlen: the number of bytes before the first NUL
strlen(buf) ==
    (CHOOSE k \in 1..Len(buf) :
        buf[k] = 0 /\ \A j \in 1..(k - 1) : buf[j] # 0) - 1

\* PyString_FromString: a string object with a copy of the bytes before NUL
PyString_FromString(buf) == [k \in 1..strlen(buf) |-> buf[k]]

\* The largest long of a build whose long is 32 bits wide.
LONG_MAX == 2147483647

\* PyInt_FromLong(event_masks[i]): the UInt32 converted to long, which
\* wraps when it does not fit.
PyInt_FromLong(m) == IF m <= LONG_MAX THEN m ELSE (m - LONG_MAX) - LONG_MAX - 2

\* PyList_New(n): a list of n slots, all NULL (a NULL slot is one that
\* ob_item does not define).
PyList_New(n) == [ob_size |-> n, ob_item |-> << >>]

\* Mutant of PyList_SET_ITEM: every item is stored in slot 0.
PyList_SET_ITEM_first(list, i, v) ==
    [list EXCEPT !.ob_item = [x \in DOMAIN @ \cup {0} |-> v]]

\* PyList_SET_ITEM(list, i, v)
PyList_SET_ITEM(list, i, v) ==
    [list EXCEPT !.ob_item =
        [x \in DOMAIN @ \cup {i} |-> IF x = i THEN v ELSE @[x]]]

\* Lines 108-128 when every allocation succeeds: the two lists after the
\* iterations i, i + 1, ..., num_events - 1 of the loop.
RECURSIVE Marshal(_, _, _, _, _)
Marshal(i, num_events, event_paths, event_masks, lists) ==
    IF i < num_events
    THEN Marshal(i + 1, num_events, event_paths, event_masks,
            [event_path_list |->
                PyList_SET_ITEM(lists.event_path_list, i,
                                PyString_FromString(event_paths[i + 1])),
             event_mask_list |->
                PyList_SET_ITEM(lists.event_mask_list, i,
                                PyInt_FromLong(event_masks[i + 1]))])
    ELSE lists

\* The arguments of the callback for a batch.
CallbackArgs(event_paths, event_masks) ==
    Marshal(0, Len(event_paths), event_paths, event_masks,
            [event_path_list |-> PyList_New(Len(event_paths)),
             event_mask_list |-> PyList_New(Len(event_paths))])

\* ------------------------------------------------------------ native layer
NoCalls == << >>

\* What a step shows its caller: the function, its key argument, the line of
\* the return statement it left by (0: it did not return), the exception the
\* caller sees raised, and the native calls it made.
Ev(op, key, exit, exc, calls) ==
    [op |-> op, key |-> key, exit |-> exit, exc |-> exc, calls |-> calls]

\* CFRunLoopStop(loop): sets the stop flag of the loop's current activation;
\* a loop that is not inside CFRunLoopRun has no activation to stop.
CFRunLoopStop(st, l) ==
    IF pc[l] = "running" THEN [st EXCEPT ![l] = TRUE] ELSE st

\* FSEventStreamStop / Invalidate / Release on a stream record
FSEventStreamStop(r) == [r EXCEPT !.st = "stopped"]
FSEventStreamInvalidate(r) == [r EXCEPT !.valid = FALSE]
\* Release destroys the stream.  Its FSEventStreamInfo is never freed, but
\* nothing reaches it afterwards except a handler call already made, which
\* holds it as its argument (hd): the record keeps the life cycle only.
FSEventStreamRelease(r) ==
    [r EXCEPT !.rel = @ + 1, !.loop = NoLoop, !.cb = NoCallback,
              !.ts = NoCtx, !.th = NoCtx]

\* ------------------------------------------------------------ schedule
\* Mutant of ResolveLoop: always the caller's own run loop.
ResolveLoop_current(t, c) == c

\* Lines 288-294: the loop registered for `thread', else the caller's own.
ResolveLoop(t, c) ==
    IF DictGet(g__pydict_loops, t, NoLoop) = NoLoop
    THEN c
    ELSE DictGet(g__pydict_loops, t, NoLoop)

\* The FSEventStreamRef FSEventStreamCreate returns: a new object.
NewStream == Len(fs) + 1

\* Mutant of StreamRecord: the callback of the first stream is stored.
StreamRecord_firstCallback(t, c, cb, startOK) ==
    LET r == [st |-> IF startOK THEN "started" ELSE "created",
              valid |-> TRUE, rel |-> 0,
              loop |-> ResolveLoop(t, c), cb |-> Callback(1), ts |-> c,
              th |-> t]
    IN IF startOK THEN r
       ELSE FSEventStreamRelease(FSEventStreamInvalidate(r))

\* The stream and its FSEventStreamInfo after lines 270-310 (th, the thread
\* handle the call was given, is kept for observation).
StreamRecord(t, c, cb, startOK) ==
    LET r == [st |-> IF startOK THEN "started" ELSE "created",
              valid |-> TRUE, rel |-> 0,
              loop |-> ResolveLoop(t, c), cb |-> cb, ts |-> c,
              th |-> t]
    IN IF startOK THEN r
       ELSE FSEventStreamRelease(FSEventStreamInvalidate(r))

\* Line 303: one more reference to the callback is held.
Py_INCREF(held, cb) == Append(held, cb)

\* CFArrayCreateMutable and PyMem_New are taken to succeed (memory is not
\* exhausted); FSEventStreamStart may fail.
pyfsevents_schedule(c, t, s, cb, startOK) ==
    /\ ~crashed
    /\ pc[c] = "idle"
    /\ gil = NoLock
    /\ IF AlreadyScheduled(s)
       THEN /\ last' = Ev("schedule", s, 249, Raised(err[c]), NoCalls)
            /\ err' = [err EXCEPT ![c] = NoErr]
            /\ UNCHANGED <<g__pydict_streams, fs, refs>>
       ELSE /\ Len(fs) < MaxStreams
            /\ g__pydict_streams' = DictSet(g__pydict_streams, s, NewStream)
            /\ fs' = Append(fs, StreamRecord(t, c, cb, startOK))
            /\ refs' = Py_INCREF(refs, cb)
            /\ IF startOK
               THEN /\ last' = Ev("schedule", s, 313, NoErr,
                                  <<<<"Start", NewStream>>>>)
                    /\ err' = err
               ELSE /\ last' = Ev("schedule", s, 309, Raised(err[c]),
                                  <<<<"Start", NewStream>>,
                                    <<"Invalidate", NewStream>>,
                                    <<"Release", NewStream>>>>)
                    /\ err' = [err EXCEPT ![c] = NoErr]
    /\ UNCHANGED <<g__pydict_loops, pc, runT, stopped, hd, gil, crashed,
                   failT, failL, gone>>

\* ------------------------------------------------------------ unschedule
\* FSEventStreamStop/Invalidate/Release on NULL or on a stream that was
\* already released is undefined behaviour: the process may die there.
UndefinedTarget(sid) == IF sid = NoStream THEN TRUE ELSE fs[sid].rel > 0

\* The state of a process that died: nothing of it is left to observe but
\* the call it died in.
Dead(ev) ==
    /\ crashed' = TRUE
    /\ last' = ev
    /\ g__pydict_loops' = << >>
    /\ g__pydict_streams' = << >>
    /\ fs' = << >>
    /\ pc' = [c \in Ctx |-> "idle"]
    /\ runT' = [c \in Ctx |-> HandleOf(c)]
    /\ stopped' = [c \in Ctx |-> FALSE]
    /\ hd' = [c \in Ctx |-> NoHandler]
    /\ err' = [c \in Ctx |-> NoErr]
    /\ gil' = NoLock
    /\ refs' = << >>
    /\ failT' = {}
    /\ failL' = {}
    /\ gone' = {}

pyfsevents_unschedule(c, s, dies) ==
    /\ ~crashed
    /\ pc[c] = "idle"
    /\ gil = NoLock
    /\ LET sid == DictGet(g__pydict_streams, s, NoStream)
           e1  == IF sid = NoStream THEN AsVoidPtrNullErr(err[c]) ELSE err[c]
           e2  == IF s \in DOMAIN g__pydict_streams THEN e1 ELSE "KeyError"
           calls == <<<<"Stop", sid>>, <<"Invalidate", sid>>,
                      <<"Release", sid>>>>
       IN IF dies
          THEN /\ UndefinedTarget(sid)
               /\ Dead(Ev("unschedule", s, 0, NoErr, calls))
          ELSE /\ g__pydict_streams' =
                     IF s \in DOMAIN g__pydict_streams
                     THEN DictDel(g__pydict_streams, s)
                     ELSE g__pydict_streams
               /\ err' = [err EXCEPT ![c] = e2]
               /\ fs' = IF sid = NoStream THEN fs
                        ELSE [fs EXCEPT ![sid] = FSEventStreamRelease(
                                FSEventStreamInvalidate(FSEventStreamStop(@)))]
               /\ last' = Ev("unschedule", s, 342, NoErr, calls)
               /\ gone' = IF UndefinedTarget(sid) THEN gone
                          ELSE gone \cup {s}
               /\ UNCHANGED <<g__pydict_loops, pc, runT, stopped, hd, gil,
                              refs, crashed, failT, failL>>

\* ------------------------------------------------------------ stop
pyfsevents_stop(c, t) ==
    /\ ~crashed
    /\ pc[c] = "idle"
    /\ gil = NoLock
    /\ LET loop == DictGet(g__pydict_loops, t, NoLoop)
       IN /\ err' = [err EXCEPT ![c] =
                        IF loop = NoLoop THEN AsVoidPtrNullErr(@) ELSE @]
          /\ stopped' = IF loop # NoLoop THEN CFRunLoopStop(stopped, loop)
                        ELSE stopped
          /\ last' = Ev("stop", t, 371, NoErr,
                        IF loop # NoLoop THEN <<<<"CFRunLoopStop", loop>>>>
                        ELSE NoCalls)
    /\ UNCHANGED <<g__pydict_loops, g__pydict_streams, fs, pc, runT, hd,
                   gil, refs, crashed, failT, failL, gone>>

\* ------------------------------------------------------------ loop
\* Mutant of LoopEnter: the caller's run loop replaces a registered one.
LoopEnter_replaces(c, t) ==
    /\ ~crashed
    /\ pc[c] = "idle"
    /\ gil = NoLock
    /\ g__pydict_loops' = DictSet(g__pydict_loops, t, c)
    /\ pc' = [pc EXCEPT ![c] = "released"]
    /\ runT' = [runT EXCEPT ![c] = t]
    /\ last' = Ev("loop_enter", t, 190, NoErr, NoCalls)
    /\ UNCHANGED <<g__pydict_streams, fs, stopped, hd, err, gil, refs,
                   crashed, failT, failL, gone>>

\* Lines 177-190: register the caller's run loop unless `thread' has one,
\* then release the interpreter lock.
LoopEnter(c, t) ==
    /\ ~crashed
    /\ pc[c] = "idle"
    /\ gil = NoLock
    /\ g__pydict_loops' =
          IF DictGet(g__pydict_loops, t, NoLoop) = NoLoop
          THEN DictSet(g__pydict_loops, t, c) ELSE g__pydict_loops
    /\ pc' = [pc EXCEPT ![c] = "released"]
    /\ runT' = [runT EXCEPT ![c] = t]
    /\ last' = Ev("loop_enter", t, 190, NoErr, NoCalls)
    /\ UNCHANGED <<g__pydict_streams, fs, stopped, hd, err, gil, refs,
                   crashed, failT, failL, gone>>

\* Line 191: CFRunLoopRun() starts an activation of the caller's run loop.
LoopRun(c) ==
    /\ ~crashed
    /\ pc[c] = "released"
    /\ pc' = [pc EXCEPT ![c] = "running"]
    /\ stopped' = [stopped EXCEPT ![c] = FALSE]
    /\ last' = Ev("loop_run", runT[c], 191, NoErr, NoCalls)
    /\ UNCHANGED <<g__pydict_loops, g__pydict_streams, fs, runT, hd, err,
                   gil, refs, crashed, failT, failL, gone>>

\* Line 191: CFRunLoopRun() returns once the activation was stopped and no
\* callout is in progress.
LoopExit(c) ==
    /\ ~crashed
    /\ pc[c] = "running"
    /\ stopped[c]
    /\ hd[c] = NoHandler
    /\ pc' = [pc EXCEPT ![c] = "returned"]
    /\ stopped' = [stopped EXCEPT ![c] = FALSE]
    /\ last' = Ev("loop_exit", runT[c], 191, NoErr, NoCalls)
    /\ UNCHANGED <<g__pydict_loops, g__pydict_streams, fs, runT, hd, err,
                   gil, refs, crashed, failT, failL, gone>>

\* Lines 192-209: take the lock again, delete the registration, report a
\* pending exception.
LoopLeave(c) ==
    /\ ~crashed
    /\ pc[c] = "returned"
    /\ gil = NoLock
    /\ LET t == runT[c]
           present == t \in DOMAIN g__pydict_loops
           e == IF present THEN err[c] ELSE "KeyError"
       IN /\ g__pydict_loops' =
                IF present THEN DictDel(g__pydict_loops, t)
                ELSE g__pydict_loops
          /\ err' = [err EXCEPT ![c] = NoErr]
          /\ last' = IF e # NoErr
                     THEN Ev("loop", t, 204, e, NoCalls)
                     ELSE Ev("loop", t, 209, NoErr, NoCalls)
    /\ pc' = [pc EXCEPT ![c] = "idle"]
    /\ failT' = failT \ {runT[c]}
    /\ failL' = failL \ {c}
    /\ UNCHANGED <<g__pydict_streams, fs, runT, stopped, hd, gil, refs,
                   crashed, gone>>

\* ------------------------------------------------------------ native engine
\* A change under a watched path: the run loop l, inside CFRunLoopRun and
\* not stopped, calls event_stream_handler for a started stream scheduled
\* on it, with a batch of num_events = Len(event_paths) events; the handler
\* blocks in PyEval_AcquireLock() (line 103).
HandlerFire(l, sid, event_paths, event_masks) ==
    /\ ~crashed
    /\ pc[l] = "running" /\ ~stopped[l]
    /\ hd[l] = NoHandler
    /\ sid \in 1..Len(fs)
    /\ fs[sid].loop = l
    /\ fs[sid].st = "started" /\ fs[sid].valid
    /\ Len(event_paths) = Len(event_masks)
    /\ hd' = [hd EXCEPT ![l] = [sid |-> sid, cb |-> fs[sid].cb,
                                 loop |-> fs[sid].loop, ts |-> fs[sid].ts,
                                 th |-> fs[sid].th, paths |-> event_paths,
                                 masks |-> event_masks]]
    /\ last' = Ev("handler_fire", sid, 103, NoErr, NoCalls)
    /\ UNCHANGED <<g__pydict_loops, g__pydict_streams, fs, pc, runT, stopped,
                   err, gil, refs, crashed, failT, failL, gone>>

\* How far lines 108-128 get: both lists built, PyList_New returned NULL
\* (line 112), or an item could not be created (line 124).
Build == {"built", "nolist", "noitem"}

\* Lines 103-150: take the lock, make the thread state captured by schedule
\* current, build the two lists, call the callback; on failure set an error
\* there and stop info->loop; restore the thread state (NULL: the thread
\* held no lock) and release the lock.  The two `return NULL' statements
\* leave with the captured thread state current and the lock held.
HandlerRun(l, build, out) ==
    /\ ~crashed
    /\ hd[l] # NoHandler
    /\ gil = NoLock
    /\ build = "noitem" => Len(hd[l].paths) > 0
    /\ LET info == hd[l]
           swap == <<"Swap", info.ts>>
           call == <<"Call", info.cb, CallbackArgs(info.paths, info.masks)>>
           stop == <<"CFRunLoopStop", info.loop>>
           back == <<<<"Swap", NoCtx>>, <<"ReleaseLock">>>>
       IN IF build # "built"
          THEN /\ err' = [err EXCEPT ![info.ts] = "MemoryError"]
               /\ gil' = l
               /\ last' = Ev("handler", info.sid,
                             IF build = "nolist" THEN 112 ELSE 124,
                             "nomem", <<swap>>)
               /\ UNCHANGED <<stopped, failT, failL>>
          ELSE /\ err' = [err EXCEPT ![info.ts] =
                             IF out = "ok" THEN @
                             ELSE CallbackError("Raised")]
               /\ gil' = NoLock
               /\ stopped' = IF out = "ok" THEN stopped
                             ELSE CFRunLoopStop(stopped, info.loop)
               /\ last' = Ev("callback", info.sid, 150,
                             IF out = "ok" THEN NoErr ELSE "failed",
                             IF out = "ok" THEN <<swap, call>> \o back
                             ELSE <<swap, call, stop>> \o back)
               /\ failT' = IF out # "ok" /\ pc[CtxOf(info.th)] = "running"
                           THEN failT \cup {info.th} ELSE failT
               /\ failL' = IF out # "ok" THEN failL \cup {l} ELSE failL
    /\ hd' = [hd EXCEPT ![l] = NoHandler]
    /\ UNCHANGED <<g__pydict_loops, g__pydict_streams, fs, pc, runT, refs,
                   crashed, gone>>

\* ------------------------------------------------------------ specification
\* The batch of every handler call of Spec: one event, flag
\* kFSEventStreamEventFlagMustScanSubDirs, on the path "\001".
OneEvent == [paths |-> <<<<1, 0>>>>, masks |-> <<1>>]

Init ==
    /\ g__pydict_loops = << >>
    /\ g__pydict_streams = << >>
    /\ fs = << >>
    /\ pc = [c \in Ctx |-> "idle"]
    /\ runT = [c \in Ctx |-> HandleOf(c)]
    /\ stopped = [c \in Ctx |-> FALSE]
    /\ hd = [c \in Ctx |-> NoHandler]
    /\ err = [c \in Ctx |-> NoErr]
    /\ gil = NoLock
    /\ refs = << >>
    /\ crashed = FALSE
    /\ last = Ev("init", "-", 0, NoErr, NoCalls)
    /\ failT = {}
    /\ failL = {}
    /\ gone = {}

Next ==
    \/ \E c \in Ctx, t \in TH, s \in SH, b \in BOOLEAN :
          pyfsevents_schedule(c, t, s, Callback(NewStream), b)
    \/ \E c \in Ctx, s \in SH, d \in BOOLEAN : pyfsevents_unschedule(c, s, d)
    \/ \E c \in Ctx, t \in TH : pyfsevents_stop(c, t)
    \/ \E c \in Ctx : LoopEnter(c, HandleOf(c))
    \/ \E c \in Ctx : LoopRun(c)
    \/ \E c \in Ctx : LoopExit(c)
    \/ \E c \in Ctx : LoopLeave(c)
    \/ \E l \in Ctx, sid \in 1..MaxStreams :
          HandlerFire(l, sid, OneEvent.paths, OneEvent.masks)
    \/ \E l \in Ctx, b \in Build, out \in Outcome : HandlerRun(l, b, out)

Spec == Init /\ [][Next]_vars

\* ---------------------------------------------------------------------
\* SpecMarshal: one context schedules one stream and runs its loop, again
\* after a callback failure has stopped it; the
\* native engine delivers batches of every size up to MaxEvents, of every
\* content over CPaths and Masks.

\* Native paths: the C strings "\001" and "\002\001".
CPaths == {<<1, 0>>, <<2, 1, 0>>}

\* Native flags: kFSEventStreamEventFlagMustScanSubDirs and
\* kFSEventStreamEventFlagItemIsSymlink.
Masks == {1, 262144}

NextMarshal ==
    \/ pyfsevents_schedule("main", "t_main", "s1", Callback(NewStream), TRUE)
    \/ LoopEnter("main", "t_main")
    \/ LoopRun("main")
    \/ \E n \in 0..MaxEvents :
          \E event_paths \in [1..n -> CPaths], event_masks \in [1..n -> Masks] :
             HandlerFire("main", 1, event_paths, event_masks)
    \/ \E b \in Build, out \in Outcome : HandlerRun("main", b, out)
    \/ LoopExit("main")
    \/ LoopLeave("main")

SpecMarshal == Init /\ [][NextMarshal]_vars

\* ---------------------------------------------------------------------
\* SpecAnyHandle: loop() is called with any thread handle, also one that
\* another context's loop() has registered; one stream handle is scheduled
\* and its callback may fail.
NextAnyHandle ==
    \/ \E c \in Ctx, t \in TH : LoopEnter(c, t)
    \/ \E c \in Ctx : LoopRun(c)
    \/ \E c \in Ctx : LoopExit(c)
    \/ \E c \in Ctx : LoopLeave(c)
    \/ \E c \in Ctx, t \in TH : pyfsevents_stop(c, t)
    \/ \E c \in Ctx, t \in TH :
          pyfsevents_schedule(c, t, "s1", Callback(NewStream), TRUE)
    \/ \E l \in Ctx, sid \in 1..MaxStreams :
          HandlerFire(l, sid, OneEvent.paths, OneEvent.masks)
    \/ \E l \in Ctx, out \in Outcome : HandlerRun(l, "built", out)

SpecAnyHandle == Init /\ [][NextAnyHandle]_vars

\* ------------------------------------------------------------ claims
\* The handler call that a step starts or ends on run loop l.
Fires(l) == hd[l] = NoHandler /\ hd'[l] # NoHandler
Delivers(l) == last'.op = "callback" /\ hd[l] # NoHandler /\ hd'[l] = NoHandler

\* C1: schedule for a stream handle that is in the stream registry returns
\* failure (line 249), makes no native call, and leaves the registry, the
\* native streams with their callbacks, and the handler calls in progress
\* as they were.
C1_DuplicateScheduleFails ==
    [][(last'.op = "schedule" /\ last'.key \in DOMAIN g__pydict_streams)
        => /\ last'.exit = 249
           /\ last'.exc # NoErr
           /\ last'.calls = NoCalls
           /\ UNCHANGED <<g__pydict_streams, fs, hd>>]_vars

\* A schedule call was refused for a handle bound to a started stream.
C1_Witness ==
    /\ last.op = "schedule" /\ last.exit = 249
    /\ last.key \in DOMAIN g__pydict_streams
    /\ fs[g__pydict_streams[last.key]].st = "started"

\* C2: unschedule of a registered handle returns success, removes the handle
\* and stops, invalidates and releases its stream once; unschedule of a
\* handle that is not registered fails and makes no native call.
C2_UnscheduleExactlyOnce ==
    [][last'.op = "unschedule"
        => IF last'.key \in DOMAIN g__pydict_streams
           THEN /\ last'.exit = 342
                /\ last'.key \notin DOMAIN g__pydict_streams'
                /\ LET r == fs'[g__pydict_streams[last'.key]]
                   IN r.st = "stopped" /\ ~r.valid /\ r.rel = 1
           ELSE /\ last'.exit # 342
                /\ last'.exc # NoErr
                /\ last'.calls = NoCalls]_vars

\* C3: when the callback of a stream scheduled for thread handle t fails
\* while loop(t) is blocked in its run loop, that run loop is stopped, no
\* further handler call is made on a loop a callback failed on, and loop(t)
\* returns the callback's error.
C3_CallbackFailureReported ==
    [][/\ \A l \in Ctx :
             (Delivers(l) /\ last'.exc = "failed"
                 /\ pc[CtxOf(hd[l].th)] = "running")
             => stopped'[CtxOf(hd[l].th)]
       /\ \A l \in Ctx : Fires(l) => l \notin failL
       /\ (last'.op = "loop" /\ last'.key \in failT)
             => (last'.exit = 204 /\ last'.exc = "Raised")]_vars

\* C4: a callback failure on one run loop changes nothing of any other run
\* loop (its stop flag, its handler call, the streams scheduled on it), and
\* a loop() call returns a callback's error only if a callback failed on the
\* run loop it ran.
C4_CallbackFailureIsolated ==
    [][/\ \A l \in Ctx :
             (Delivers(l) /\ last'.exc = "failed")
             => /\ \A c \in Ctx \ {l} :
                      stopped'[c] = stopped[c] /\ hd'[c] = hd[c]
                /\ UNCHANGED <<fs, pc, g__pydict_streams, g__pydict_loops>>
       /\ (last'.op = "loop" /\ last'.exc = "Raised")
             => CtxOf(last'.key) \in failL]_vars

\* C5: stop for a thread handle that is not in the loop registry returns
\* success, stops no loop, leaves both registries unchanged and leaves no
\* error pending that was not pending before.
C5_StopUnregisteredIsNoOp ==
    [][(last'.op = "stop" /\ last'.key \notin DOMAIN g__pydict_loops)
        => /\ last'.exit = 371
           /\ last'.exc = NoErr
           /\ last'.calls = NoCalls
           /\ UNCHANGED <<stopped, g__pydict_loops, g__pydict_streams>>
           /\ err' = err]_vars

\* C6: a stop(t) issued while loop(t) is registered and has not yet come
\* back from its run loop leaves that run loop with a stop pending, and a
\* loop(t) that comes back with no callback failure returns success with t
\* removed from the loop registry.
C6_StopNeverLost ==
    [][/\ (last'.op = "stop" /\ last'.key \in DOMAIN g__pydict_loops
              /\ pc[CtxOf(last'.key)] \in {"released", "running"})
             => stopped'[g__pydict_loops[last'.key]]
       /\ (last'.op = "loop" /\ last'.key \notin failT
              /\ CtxOf(last'.key) \notin failL)
             => /\ last'.exit = 209
                /\ last'.key \notin DOMAIN g__pydict_loops']_vars

\* C7: a schedule call that fails because the stream did not start (line
\* 309) has invalidated and released the stream it created and leaves its
\* handle out of the stream registry.
C7_StartFailureNotRegistered ==
    [][(last'.op = "schedule" /\ last'.exit = 309)
        => /\ last'.exc # NoErr
           /\ ~fs'[Len(fs')].valid
           /\ fs'[Len(fs')].rel = 1
           /\ last'.key \notin DOMAIN g__pydict_streams']_vars

\* C8: the callback is invoked only for a stream that has not been
\* unscheduled.
C8_NoCallbackAfterUnschedule ==
    [][last'.op = "callback" => fs[last'.key].st = "started"]_vars

\* C9 as claimed: whenever loop(t) is inside its run loop, every started
\* stream scheduled for t is attached to that run loop.
C9_AttachedToLoopOfRun ==
    \A sid \in 1..Len(fs) :
        (fs[sid].st = "started" /\ pc[CtxOf(fs[sid].th)] = "running")
        => fs[sid].loop = CtxOf(fs[sid].th)

\* C9 as amended: a stream scheduled for t is attached to the run loop of
\* loop(t) when t was registered at the time of the schedule call or the
\* call was made in the context that runs loop(t), and to the calling
\* context's own run loop otherwise; handler calls for a stream are made by
\* the run loop it is attached to.
C9_AttachedWhenRegisteredOrOwn ==
    [][/\ (last'.op = "schedule" /\ last'.exit = 313)
             => LET r == fs'[Len(fs')]
                IN IF r.th \in DOMAIN g__pydict_loops \/ r.ts = CtxOf(r.th)
                   THEN r.loop = CtxOf(r.th)
                   ELSE r.loop = r.ts
       /\ \A l \in Ctx : Fires(l) => hd'[l].loop = l]_vars

\* The callback of a stream that another context scheduled for t after t
\* was registered has just been called by the run loop of loop(t).
C9_Witness ==
    /\ last.op = "callback"
    /\ LET r == fs[last.key]
       IN /\ r.st = "started"
          /\ r.ts # CtxOf(r.th)
          /\ r.loop = CtxOf(r.th)
          /\ pc[CtxOf(r.th)] = "running"

\* C10: an unschedule that returns removes its handle from the stream
\* registry, and a schedule for a handle that was unscheduled and is not
\* registered is not refused as already scheduled: it binds the handle to a
\* newly created stream, leaves every other stream as it was, and returns
\* success when the stream starts.
C10_HandleReusable ==
    [][/\ (last'.op = "unschedule" /\ last'.exit = 342)
             => last'.key \notin DOMAIN g__pydict_streams'
       /\ (last'.op = "schedule" /\ last'.key \in gone
              /\ last'.key \notin DOMAIN g__pydict_streams)
             => /\ last'.exit \in {313, 309}
                /\ Len(fs') = Len(fs) + 1
                /\ \A k \in 1..Len(fs) : fs'[k] = fs[k]
                /\ g__pydict_streams'[last'.key] = Len(fs')
                /\ last'.calls[1] = <<"Start", Len(fs')>>
                /\ (last'.exit = 313) = (fs'[Len(fs')].st = "started")]_vars

\* A handle that was unscheduled has just been scheduled again and is bound
\* to a second, started stream.
C10_Witness ==
    /\ last.op = "schedule" /\ last.exit = 313
    /\ last.key \in gone
    /\ g__pydict_streams[last.key] = Len(fs)
    /\ fs[Len(fs)].st = "started"
    /\ \E k \in 1..(Len(fs) - 1) : fs[k].st = "stopped"

\* C11: schedule stores in the stream's FSEventStreamInfo the callback it
\* was given, the thread state of its caller and the loop it resolved; the
\* stored callback, loop and thread state of a stream stay as they are until
\* the stream is released; a handler call is given the info of its own
\* stream, and the delivery it makes switches to the stored thread state
\* and calls the stored callback, which is the callback of that stream's
\* schedule call and of no other stream.
C11_OwnCallbackInCapturedContext ==
    [][/\ (last'.op = "schedule" /\ last'.exit = 313)
             => \A c \in Ctx, t \in TH :
                   pyfsevents_schedule(c, t, last'.key, Callback(NewStream),
                                       TRUE)
                   => /\ fs'[Len(fs')].cb = Callback(Len(fs'))
                      /\ fs'[Len(fs')].ts = c
       /\ \A sid \in (1..Len(fs)) \cap (1..Len(fs')) :
             (fs[sid].rel = 0 /\ fs'[sid].rel = 0)
             => /\ fs'[sid].cb = fs[sid].cb
                /\ fs'[sid].loop = fs[sid].loop
                /\ fs'[sid].ts = fs[sid].ts
       /\ \A l \in Ctx :
             Fires(l)
             => /\ hd'[l].cb = fs[hd'[l].sid].cb
                /\ hd'[l].ts = fs[hd'[l].sid].ts
       /\ \A l \in Ctx :
             Delivers(l)
             => /\ last'.key = hd[l].sid
                /\ last'.calls[1] = <<"Swap", hd[l].ts>>
                /\ last'.calls[2][1] = "Call"
                /\ last'.calls[2][2] = hd[l].cb
                /\ hd[l].cb = Callback(hd[l].sid)
                /\ \A k \in 1..Len(fs) :
                      k # hd[l].sid => last'.calls[2][2] # Callback(k)]_vars

\* The second of two started streams attached to the same run loop, which
\* another context scheduled, has just been delivered to.
C11_Witness ==
    /\ last.op = "callback" /\ last.key = 2
    /\ Len(fs) = 2
    /\ fs[1].st = "started" /\ fs[2].st = "started"
    /\ fs[1].loop = fs[2].loop
    /\ fs[2].ts # fs[2].loop
    /\ last.calls[1] = <<"Swap", fs[2].ts>>

\* C12: every execution of event_stream_handler that took the lock leaves
\* with the lock released and the thread state that was current before it
\* restored, whether the callback succeeded, the callback failed or the
\* lists could not be built.
C12_LockReleasedOnEveryExit ==
    [][\A l \in Ctx :
          (last'.op \in {"callback", "handler"}
              /\ hd[l] # NoHandler /\ hd'[l] = NoHandler)
          => /\ gil' = NoLock
             /\ Len(last'.calls) >= 2
             /\ last'.calls[Len(last'.calls)] = <<"ReleaseLock">>
             /\ last'.calls[Len(last'.calls) - 1] = <<"Swap", NoCtx>>]_vars

\* C13: the registries are read and written and the callback is called only
\* in steps that take the lock (it is free when they start); no context
\* holds the lock while its loop() is between releasing it and taking it
\* again; and a handler call waiting for the lock can take it: the lock is
\* not left held between steps.
C13_LockDiscipline ==
    [][/\ (\/ g__pydict_loops' # g__pydict_loops
           \/ g__pydict_streams' # g__pydict_streams
           \/ last'.op \in {"schedule", "unschedule", "stop", "loop_enter",
                            "loop", "callback"})
          => gil = NoLock
       /\ \A c \in Ctx :
             pc'[c] \in {"released", "running", "returned"} => gil' # c
       /\ \A l \in Ctx : hd'[l] # NoHandler => gil' = NoLock]_vars

\* C14: every stream handle in the stream registry is bound to a native
\* stream that is started, not invalidated and not released, and no two
\* handles are bound to the same stream.
C14_RegisteredStreamIsLive ==
    /\ \A s \in DOMAIN g__pydict_streams :
          LET r == fs[g__pydict_streams[s]]
          IN r.st = "started" /\ r.valid /\ r.rel = 0
    /\ \A s1, s2 \in DOMAIN g__pydict_streams :
          g__pydict_streams[s1] = g__pydict_streams[s2] => s1 = s2

\* C15: every thread handle in the loop registry is bound to a run loop
\* that is inside CFRunLoopRun, blocking the context that owns it.
C15_RegisteredLoopIsRunning ==
    \A t \in DOMAIN g__pydict_loops : pc[g__pydict_loops[t]] = "running"

\* C16: no native stream is invalidated and released more than once.
C16_ReleasedAtMostOnce ==
    \A sid \in 1..Len(fs) : fs[sid].rel <= 1

\* C17: when loop(t) returns, with success or with an error, t is not in
\* the loop registry; loop(t) registers its caller's run loop when t has
\* none and leaves the registered one in place when t has one; and the loop
\* registered for a handle is never replaced while the handle stays
\* registered.
C17_UnregisteredOnReturn ==
    [][/\ last'.op = "loop" => last'.key \notin DOMAIN g__pydict_loops'
       /\ last'.op = "loop_enter"
             => /\ last'.key \in DOMAIN g__pydict_loops'
                /\ IF last'.key \in DOMAIN g__pydict_loops
                   THEN g__pydict_loops' = g__pydict_loops
                   ELSE \A c \in Ctx :
                           (pc[c] = "idle" /\ pc'[c] = "released")
                           => g__pydict_loops'[last'.key] = c
       /\ \A t \in DOMAIN g__pydict_loops \cap DOMAIN g__pydict_loops' :
             g__pydict_loops'[t] = g__pydict_loops[t]]_vars

\* loop(t) has just returned, stopped by the failure of a callback, and t is
\* out of the registry while another context that reused the registration
\* of t is still inside its run loop.
C17_Witness ==
    /\ last.op = "loop" /\ last.exit = 204 /\ last.exc = "Raised"
    /\ last.key \notin DOMAIN g__pydict_loops
    /\ \E c \in Ctx : pc[c] = "running" /\ runT[c] = last.key

\* The bytes of a native path: its buffer without the NUL that ends it.
NativePath(buf) == SubSeq(buf, 1, Len(buf) - 1)

\* C18: a delivery for a batch of count events calls the callback with two
\* lists of count items each, no slot left unset; item i of the first is
\* the string of native path i and item i of the second the integer of
\* native flag i.
C18_ListsMatchBatch ==
    [][\A l \in Ctx :
          Delivers(l)
          => LET count == Len(hd[l].paths)
                 args == last'.calls[2][3]
             IN /\ args.event_path_list.ob_size = count
                /\ args.event_mask_list.ob_size = count
                /\ DOMAIN args.event_path_list.ob_item = 0..(count - 1)
                /\ DOMAIN args.event_mask_list.ob_item = 0..(count - 1)
                /\ \A i \in 0..(count - 1) :
                      /\ args.event_path_list.ob_item[i] =
                            NativePath(hd[l].paths[i + 1])
                      /\ args.event_mask_list.ob_item[i] =
                            hd[l].masks[i + 1]]_vars

\* The callback has just been called for a batch of two events with
\* different paths and different flags, longer path and larger flag first.
C18_Witness ==
    /\ last.op = "callback"
    /\ LET args == last.calls[2][3]
       IN /\ args.event_path_list.ob_size = 2
          /\ args.event_path_list.ob_item[0] = <<2, 1>>
          /\ args.event_path_list.ob_item[1] = <<1>>
          /\ args.event_mask_list.ob_item[0] = 262144
          /\ args.event_mask_list.ob_item[1] = 1

\* C19: a module function that returns failure has an exception pending
\* (its caller is not left with SystemError for want of one), and a module
\* function that returns success has left no exception pending that was not
\* pending before it.
C19_ReturnAgreesWithPendingError ==
    [][/\ last'.exit \in {249, 309, 204} => last'.exc # "SystemError"
       /\ last'.exit \in {313, 342, 371, 209}
             => \A c \in Ctx : err'[c] # NoErr => err'[c] = err[c]]_vars

\* C20: the callback references held are as many as the stream handles in
\* the stream registry.
C20_CallbackRefsMatchRegistry ==
    Len(refs) = Cardinality(DOMAIN g__pydict_streams)

====
